---- MODULE Spec2Model ----
(***************************************************************************)
(* A model of the zwiftpower-profile-data tools:                           *)
(*   find_profile_changes.py  the alias-history backfill / delta / filter  *)
(*                            pipeline and its report renderers            *)
(*   anonymise.py             the line-by-line anonymiser of its reports   *)
(*                                                                         *)
(* Python values are represented as follows.                               *)
(*   str    a sequence of one-character strings, so that slicing,          *)
(*          capitalize() and int() act on characters                       *)
(*   dict   a record / function from keys to values                        *)
(*   list   a sequence                                                     *)
(*   None   the empty tuple <<>>; a present value v is the 1-tuple <<v>>   *)
(*          (used wherever the program may hold either)                    *)
(*   float  points are kept exactly, as a whole number of 1/PointsDen      *)
(*          points; weights as a whole number of tenths of a kilogram      *)
(***************************************************************************)
EXTENDS Integers, Sequences, FiniteSets, TLC

VARIABLES
    pc,        \* position of the running program / function
    aliases,   \* argument of backfill_heights, get_deltas, numeric_months
    fields,    \* argument `fields` of get_deltas
    retain,    \* argument `retain` of filter_deltas
    deltas,    \* list(get_deltas(...)), the argument of filter_deltas
    result,    \* the value returned by the function under study
    args,      \* docopt arguments of find_profile_changes.py
    stdin,     \* the records on standard input, one per line
    pos,       \* number of input lines consumed so far
    descs,     \* the descriptions find_profile_changes.main holds back
    stdout     \* the records written to standard output so far

vars == <<pc, aliases, fields, retain, deltas, result, args, stdin, pos,
          descs, stdout>>

(***************************************************************************)
(* Bounds of the model.                                                    *)
(***************************************************************************)
MaxBackfillLen == 6
MaxDeltaLen == 3
MaxMonthLen == 2
MaxProfiles == 3
MaxReports == 2
MaxRoundLines == 1
MaxPoints == 140
PointsDen == 2

(***************************************************************************)
(* Python values                                                           *)
(***************************************************************************)
None == <<>>
Some(v) == <<v>>
IsNone(x) == x = <<>>
Val(x) == x[1]

Min(a, b) == IF a < b THEN a ELSE b
Abs(x) == IF x < 0 THEN -x ELSE x

\* s[::-1]
Reverse(s) == [i \in 1..Len(s) |-> s[Len(s) + 1 - i]]

\* s[a:b] for 0 <= a <= b
Slice(s, a, b) == SubSeq(s, a + 1, Min(b, Len(s)))

\* all sequences over S of length at most n
SeqsUpTo(S, n) == UNION {[1..k -> S] : k \in 0..n}

Digits == <<"0", "1", "2", "3", "4", "5", "6", "7", "8", "9">>
LowerCase == <<"a", "b", "c", "d", "e", "f", "g", "h", "i", "j", "k", "l", "m",
               "n", "o", "p", "q", "r", "s", "t", "u", "v", "w", "x", "y", "z">>
UpperCase == <<"A", "B", "C", "D", "E", "F", "G", "H", "I", "J", "K", "L", "M",
               "N", "O", "P", "Q", "R", "S", "T", "U", "V", "W", "X", "Y", "Z">>

IndexIn(c, table) == CHOOSE i \in 1..Len(table) : table[i] = c
IsIn(c, table) == \E i \in 1..Len(table) : table[i] = c

Upper(c) == IF IsIn(c, LowerCase) THEN UpperCase[IndexIn(c, LowerCase)] ELSE c
Lower(c) == IF IsIn(c, UpperCase) THEN LowerCase[IndexIn(c, UpperCase)] ELSE c

\* str.capitalize(): first character upper-cased, the rest lower-cased
Capitalize(s) ==
    [i \in 1..Len(s) |-> IF i = 1 THEN Upper(s[i]) ELSE Lower(s[i])]

\* str(n) / f"{n}" for an int n >= 0
RECURSIVE IntToStr(_)
IntToStr(n) ==
    IF n < 10 THEN <<Digits[n + 1]>>
    ELSE IntToStr(n \div 10) \o <<Digits[(n % 10) + 1]>>

\* f"{n:02}" for an int n >= 0: zero-padded to a width of at least 2
Format02(n) ==
    LET s == IntToStr(n) IN IF Len(s) < 2 THEN <<"0">> \o s ELSE s

(***************************************************************************)
(* Alias records, as parse_profiles.parse_alias_row builds them.           *)
(***************************************************************************)
Alias(month, day, hour, minute, name, weight, height) ==
    [month |-> month, day |-> day, hour |-> hour, minute |-> minute,
     name |-> name, weight |-> weight, height |-> height]

Jan == <<"j", "a", "n">>
Feb == <<"f", "e", "b">>

(***************************************************************************)
(* find_profile_changes.backfill_heights                                   *)
(***************************************************************************)
RECURSIVE TakeWhileZero(_)
TakeWhileZero(s) ==
    IF s = <<>> \/ s[1].height # 0 THEN <<>>
    ELSE <<s[1]>> \o TakeWhileZero(Tail(s))

RECURSIVE DropWhileZero(_)
DropWhileZero(s) ==
    IF s = <<>> \/ s[1].height # 0 THEN s
    ELSE DropWhileZero(Tail(s))

\* faulty variant: the zero run is taken from the newest end instead of the oldest
backfill_heights_newest_end(as) ==
    LET nonzero == SelectSeq(as, LAMBDA a : a.height # 0)
    IN  IF nonzero = <<>> THEN as
        ELSE LET first_height == nonzero[1].height
                 backfilled == [i \in 1..Len(TakeWhileZero(as)) |->
                                   [TakeWhileZero(as)[i]
                                       EXCEPT !.height = first_height]]
             IN  backfilled \o DropWhileZero(as)

backfill_heights(as) ==
    LET rev == Reverse(as)
        nonzero == SelectSeq(rev, LAMBDA a : a.height # 0)
    IN  IF nonzero = <<>> THEN as
        ELSE LET first_height == nonzero[1].height
                 taken == TakeWhileZero(rev)
                 backfilled == Reverse([i \in 1..Len(taken) |->
                                   [taken[i] EXCEPT !.height = first_height]])
                 default == Reverse(DropWhileZero(rev))
             IN  default \o backfilled

BackfillPool ==
    { Alias(Feb, 18, 9, 5, "a", 820, 0),
      Alias(Feb, 17, 9, 5, "b", 800, 0),
      Alias(Feb, 19, 9, 5, "a", 820, 9),
      Alias(Feb, 20, 9, 5, "b", 800, 10) }

InitBackfill ==
    /\ pc = "start"
    /\ aliases \in SeqsUpTo(BackfillPool, MaxBackfillLen)
    /\ fields = {} /\ retain = <<>> /\ deltas = <<>> /\ result = <<>>
    /\ args = <<>> /\ stdin = <<>> /\ pos = 0 /\ descs = <<>> /\ stdout = <<>>

BackfillHeights ==
    /\ pc = "start"
    /\ result' = backfill_heights(aliases)
    /\ pc' = "done"
    /\ UNCHANGED <<aliases, fields, retain, deltas, args, stdin, pos, descs,
                   stdout>>

NextBackfill == BackfillHeights

SpecBackfill == InitBackfill /\ [][NextBackfill]_vars

(***************************************************************************)
(* Helpers of the properties.                                              *)
(***************************************************************************)
\* the elements of a finite set of integers, in increasing order
Ascending(S) ==
    [k \in 1..Cardinality(S) |->
        CHOOSE x \in S : Cardinality({y \in S : y < x}) = k - 1]

\* first index of the run of zero heights that ends at the oldest (last)
\* entry; Len(as) + 1 when the oldest entry has a height
ZeroRunStart(as) ==
    CHOOSE k \in 1..(Len(as) + 1) :
        /\ \A j \in k..Len(as) : as[j].height = 0
        /\ k > 1 => as[k - 1].height # 0

OtherFields == {"month", "day", "hour", "minute", "name", "weight"}

\* C5: backfill_heights returns a sequence of the same length and order in
\* which exactly the entries of the zero run ending at the oldest entry take
\* the height of the nearest newer entry with a height (the anchor); every
\* other height and every other field is that of the input; with no
\* non-zero height at all (or no alias) the input is returned as it is.
C5_BackfillTrailingRun ==
    pc = "done" =>
        LET k == ZeroRunStart(aliases)
        IN  /\ Len(result) = Len(aliases)
            /\ \A i \in 1..Len(aliases) :
                  /\ \A f \in OtherFields : result[i][f] = aliases[i][f]
                  /\ result[i].height =
                        IF k > 1 /\ i >= k THEN aliases[k - 1].height
                        ELSE aliases[i].height
            /\ k = 1 => result = aliases

\* a zero run at the oldest end was filled while a zero newer than the
\* anchor was left alone
C5_Witness ==
    /\ pc = "done"
    /\ Len(aliases) = MaxBackfillLen
    /\ ZeroRunStart(aliases) \in 4..Len(aliases)
    /\ aliases[2].height = 0
    /\ result[2].height = 0
    /\ result[Len(aliases)].height # 0

(***************************************************************************)
(* find_profile_changes.get_deltas, filter_deltas, get_suspicious_deltas   *)
(***************************************************************************)
\* the dict comprehension of get_deltas: the non-zero differences last - alias
FieldDeltas(last, alias, fs) ==
    [f \in {g \in fs : last[g] - alias[g] # 0} |-> last[f] - alias[f]]

\* the for loop of get_deltas from its i-th iteration on; `last` is None
\* before the first iteration, `out` the Deltas yielded so far
RECURSIVE GetDeltasLoop(_, _, _, _, _)
GetDeltasLoop(as, fs, i, last, out) ==
    IF i > Len(as) THEN out
    ELSE LET alias == as[i]
             ds == FieldDeltas(Val(last), alias, fs)
             yielded == IF ~IsNone(last) /\ DOMAIN ds # {}
                        THEN <<[from |-> alias, to |-> Val(last), deltas |-> ds]>>
                        ELSE <<>>
         IN  GetDeltasLoop(as, fs, i + 1, Some(alias), out \o yielded)

\* faulty variant: 'from' and 'to' exchanged
get_deltas_swapped(as, fs) ==
    LET ds == GetDeltasLoop(as, fs, 1, None, <<>>)
    IN  [k \in 1..Len(ds) |->
            [from |-> ds[k].to, to |-> ds[k].from, deltas |-> ds[k].deltas]]

\* faulty variant: the `if deltas:` guard dropped, every adjacent pair yields a Delta
get_deltas_unguarded(as, fs) ==
    [i \in 1..(Len(as) - 1) |->
        [from |-> as[i + 1], to |-> as[i],
         deltas |-> FieldDeltas(as[i], as[i + 1], fs)]]

get_deltas(as, fs) == GetDeltasLoop(as, fs, 1, None, <<>>)

\* The predicates (lambdas) of the program and of its doctests:
\*   [op |-> "abs_ge", n |-> 5]   lambda x: abs(x) >= 5
\*   [op |-> "abs_gt", n |-> 3]   lambda x: abs(x) > 3
\*   [op |-> "false",  n |-> 0]   lambda x: False
Holds(pred, x) ==
    CASE pred.op = "abs_ge" -> Abs(x) >= pred.n
      [] pred.op = "abs_gt" -> Abs(x) > pred.n
      [] pred.op = "false" -> FALSE

HeightThreshold == 5
DoctestThreshold == 3

\* retain.get(k, lambda x: True)(v)
Retained(rt, k, v) == IF k \in DOMAIN rt THEN Holds(rt[k], v) ELSE TRUE

\* faulty variant: a field with no predicate is dropped instead of kept
filter_deltas_default_deny(ds, rt) ==
    LET filtered == [i \in 1..Len(ds) |->
            [ds[i] EXCEPT !.deltas =
                [k \in {j \in DOMAIN ds[i].deltas :
                           j \in DOMAIN rt /\ Holds(rt[j], ds[i].deltas[j])}
                    |-> ds[i].deltas[k]]]]
    IN  SelectSeq(filtered, LAMBDA d : DOMAIN d.deltas # {})

filter_deltas(ds, rt) ==
    LET filtered == [i \in 1..Len(ds) |->
            [ds[i] EXCEPT !.deltas =
                [k \in {j \in DOMAIN ds[i].deltas :
                           Retained(rt, j, ds[i].deltas[j])}
                    |-> ds[i].deltas[k]]]]
    IN  SelectSeq(filtered, LAMBDA d : DOMAIN d.deltas # {})

HeightPolicy == [k \in {"height"} |-> [op |-> "abs_ge", n |-> HeightThreshold]]

get_suspicious_deltas(as) ==
    filter_deltas(get_deltas(as, {"height"}), HeightPolicy)

DeltaPool ==
    { Alias(Jan, 15, 0, 28, "a", 820, 187),
      Alias(Jan, 10, 2, 28, "a", 820, 120),
      Alias(Jan, 10, 0, 28, "b", 818, 124),
      Alias(Jan, 9, 0, 28, "b", 824, 125),
      Alias(Jan, 1, 0, 28, "a", 824, 120),
      Alias(Jan, 1, 0, 28, "a", 820, 0) }

Predicates ==
    { [op |-> "abs_ge", n |-> HeightThreshold],
      [op |-> "abs_gt", n |-> DoctestThreshold],
      [op |-> "false", n |-> 0] }

TrackedFields == {"height", "weight"}

RetainPool == UNION {[K -> Predicates] : K \in SUBSET TrackedFields}

InitDeltas ==
    /\ pc = "start"
    /\ aliases \in SeqsUpTo(DeltaPool, MaxDeltaLen)
    /\ fields \in SUBSET TrackedFields
    /\ retain = <<>> /\ deltas = <<>> /\ result = <<>>
    /\ args = <<>> /\ stdin = <<>> /\ pos = 0 /\ descs = <<>> /\ stdout = <<>>

GetDeltas ==
    /\ pc = "start"
    /\ deltas' = get_deltas(aliases, fields)
    /\ pc' = "deltas"
    /\ UNCHANGED <<aliases, fields, retain, result, args, stdin, pos, descs,
                   stdout>>

FilterDeltas ==
    /\ pc = "deltas"
    /\ \E rt \in RetainPool :
          /\ retain' = rt
          /\ result' = filter_deltas(deltas, rt)
    /\ pc' = "filtered"
    /\ UNCHANGED <<aliases, fields, deltas, args, stdin, pos, descs, stdout>>

GetSuspiciousDeltas ==
    /\ pc = "start"
    /\ fields' = {"height"}
    /\ retain' = HeightPolicy
    /\ result' = get_suspicious_deltas(aliases)
    /\ pc' = "suspicious"
    /\ UNCHANGED <<aliases, deltas, args, stdin, pos, descs, stdout>>

NextDeltas == GetDeltas \/ FilterDeltas \/ GetSuspiciousDeltas

SpecDeltas == InitDeltas /\ [][NextDeltas]_vars

\* indices i of the adjacent pairs (as[i] newer, as[i + 1] older) that differ
\* in at least one of the fields fs
DifferingPairs(as, fs) ==
    {i \in 1..(Len(as) - 1) : \E f \in fs : as[i][f] # as[i + 1][f]}

\* C1 (as amended): every Delta of get_deltas has 'from' = the older record
\* of an adjacent pair, 'to' = the newer one, and each field present is a
\* tracked field whose value is newer[field] - older[field].
C1_DeltaNewerMinusOlder ==
    pc = "deltas" =>
        \A k \in 1..Len(deltas) :
            \E i \in 1..(Len(aliases) - 1) :
                /\ deltas[k].to = aliases[i]
                /\ deltas[k].from = aliases[i + 1]
                /\ DOMAIN deltas[k].deltas \subseteq fields
                /\ \A f \in DOMAIN deltas[k].deltas :
                      deltas[k].deltas[f] = aliases[i][f] - aliases[i + 1][f]

\* C1 as claimed: each field present is older[field] - newer[field].
C1_DeltaOlderMinusNewer ==
    pc = "deltas" =>
        \A k \in 1..Len(deltas) :
            \E i \in 1..(Len(aliases) - 1) :
                /\ deltas[k].to = aliases[i]
                /\ deltas[k].from = aliases[i + 1]
                /\ DOMAIN deltas[k].deltas \subseteq fields
                /\ \A f \in DOMAIN deltas[k].deltas :
                      deltas[k].deltas[f] = aliases[i + 1][f] - aliases[i][f]

\* the doctest's first pair: height 187 (newer) and 120 (older) give 67
C1_Witness ==
    /\ pc = "deltas"
    /\ Len(deltas) >= 1
    /\ deltas[1].to.height = 187
    /\ deltas[1].from.height = 120
    /\ "height" \in DOMAIN deltas[1].deltas
    /\ deltas[1].deltas["height"] = 67

\* C7: get_deltas yields, newest pair first, exactly one Delta for each
\* adjacent pair that differs in a tracked field and none for the others; no
\* Delta has an empty mapping; at most n - 1 are yielded, none for n <= 1.
C7_OneDeltaPerDifferingPair ==
    pc = "deltas" =>
        LET idx == Ascending(DifferingPairs(aliases, fields))
        IN  /\ Len(deltas) = Len(idx)
            /\ \A k \in 1..Len(deltas) :
                  /\ deltas[k].to = aliases[idx[k]]
                  /\ deltas[k].from = aliases[idx[k] + 1]
                  /\ DOMAIN deltas[k].deltas # {}
            /\ Len(aliases) >= 1 => Len(deltas) <= Len(aliases) - 1
            /\ Len(aliases) <= 1 => Len(deltas) = 0

\* three aliases of which only the older pair differs in the tracked field
C7_Witness ==
    /\ pc = "deltas"
    /\ Len(aliases) = 3
    /\ fields = {"height"}
    /\ aliases[1].height = aliases[2].height
    /\ aliases[1] # aliases[2]
    /\ aliases[2].height # aliases[3].height
    /\ Len(deltas) = 1

\* the fields of a Delta that the predicate mapping rt lets through
Passing(d, rt) ==
    {f \in DOMAIN d.deltas : f \notin DOMAIN rt \/ Holds(rt[f], d.deltas[f])}

\* C6: filter_deltas returns, in the original order, each Delta restricted
\* to the fields whose predicate is true (fields without a predicate kept)
\* and omits the Deltas left with no field; under the height policy of
\* get_suspicious_deltas a pair's Delta is kept exactly when the absolute
\* height difference is at least 5.
C6_FilterKeepsPassingFields ==
    /\ pc = "filtered" =>
          LET idx == Ascending({i \in 1..Len(deltas) :
                                   Passing(deltas[i], retain) # {}})
          IN  /\ Len(result) = Len(idx)
              /\ \A k \in 1..Len(result) :
                    /\ result[k].from = deltas[idx[k]].from
                    /\ result[k].to = deltas[idx[k]].to
                    /\ DOMAIN result[k].deltas = Passing(deltas[idx[k]], retain)
                    /\ \A f \in DOMAIN result[k].deltas :
                          result[k].deltas[f] = deltas[idx[k]].deltas[f]
    /\ pc = "suspicious" =>
          LET idx == Ascending({i \in 1..(Len(aliases) - 1) :
                  Abs(aliases[i].height - aliases[i + 1].height) >= 5})
          IN  /\ Len(result) = Len(idx)
              /\ \A k \in 1..Len(result) :
                    /\ result[k].to = aliases[idx[k]]
                    /\ result[k].from = aliases[idx[k] + 1]
                    /\ DOMAIN result[k].deltas = {"height"}

\* a height difference of 4 was dropped and one of 5 or -5 kept by the
\* height policy
C6_Witness ==
    /\ pc = "suspicious"
    /\ Len(aliases) = 3
    /\ Abs(aliases[1].height - aliases[2].height) = 4
    /\ Abs(aliases[2].height - aliases[3].height) = 5
    /\ Len(result) = 1
    /\ Abs(result[1].deltas["height"]) = 5

(***************************************************************************)
(* find_profile_changes.months, numeric_month, numeric_months              *)
(*                                                                         *)
(* A call either returns or raises: [raised |-> None, value |-> v] or      *)
(* [raised |-> Some(<exception>), value |-> None].                         *)
(***************************************************************************)
Return(v) == [raised |-> None, value |-> v]
Raise(e) == [raised |-> Some(e), value |-> None]

\* 'jan feb mar apr may jun jul aug sep oct nov dec'.split()
MonthNames ==
    << <<"j", "a", "n">>, <<"f", "e", "b">>, <<"m", "a", "r">>,
       <<"a", "p", "r">>, <<"m", "a", "y">>, <<"j", "u", "n">>,
       <<"j", "u", "l">>, <<"a", "u", "g">>, <<"s", "e", "p">>,
       <<"o", "c", "t">>, <<"n", "o", "v">>, <<"d", "e", "c">> >>

\* faulty variant: enumerate() without its start of 1
months_from_zero ==
    [m \in {MonthNames[n] : n \in 1..Len(MonthNames)} |->
        (CHOOSE n \in 1..Len(MonthNames) : MonthNames[n] = m) - 1]

\* {month: n for n, month in enumerate(..., 1)}
months ==
    [m \in {MonthNames[n] : n \in 1..Len(MonthNames)} |->
        CHOOSE n \in 1..Len(MonthNames) : MonthNames[n] = m]

\* months[month]: a dict lookup, KeyError for a key that is not in the dict
numeric_month(month) ==
    IF month \in DOMAIN months THEN Return(months[month])
    ELSE Raise("KeyError")

\* the list comprehension: the first lookup that raises ends it
numeric_months(as) ==
    IF \E i \in 1..Len(as) : numeric_month(as[i].month).raised # None
    THEN Raise("KeyError")
    ELSE Return([i \in 1..Len(as) |->
                    [as[i] EXCEPT !.month = numeric_month(as[i].month).value]])

UpperStr(s) == [i \in 1..Len(s) |-> Upper(s[i])]

MonthTokens ==
    {MonthNames[n] : n \in 1..Len(MonthNames)}
    \cup {Capitalize(MonthNames[n]) : n \in 1..Len(MonthNames)}
    \cup {UpperStr(Jan), UpperStr(Feb)}
    \cup {<<"f", "o", "o">>, <<"s", "e", "p", "t">>, <<>>}

MonthPool ==
    {Alias(t, 10 + Len(t), 9, 5, "a", 820, 187) : t \in MonthTokens}
    \cup {Alias(Jan, 1, 0, 28, "b", 800, 0)}

InitMonths ==
    /\ pc = "start"
    /\ aliases \in SeqsUpTo(MonthPool, MaxMonthLen)
    /\ fields = {} /\ retain = <<>> /\ deltas = <<>> /\ result = <<>>
    /\ args = <<>> /\ stdin = <<>> /\ pos = 0 /\ descs = <<>> /\ stdout = <<>>

NumericMonths ==
    /\ pc = "start"
    /\ result' = numeric_months(aliases)
    /\ pc' = IF numeric_months(aliases).raised = None THEN "done" ELSE "raised"
    /\ UNCHANGED <<aliases, fields, retain, deltas, args, stdin, pos, descs,
                   stdout>>

NextMonths == NumericMonths

SpecMonths == InitMonths /\ [][NextMonths]_vars

\* the twelve abbreviations and their numbers, as the specification lists them
MonthNumber(t) ==
    CASE t = <<"j", "a", "n">> -> 1   [] t = <<"f", "e", "b">> -> 2
      [] t = <<"m", "a", "r">> -> 3   [] t = <<"a", "p", "r">> -> 4
      [] t = <<"m", "a", "y">> -> 5   [] t = <<"j", "u", "n">> -> 6
      [] t = <<"j", "u", "l">> -> 7   [] t = <<"a", "u", "g">> -> 8
      [] t = <<"s", "e", "p">> -> 9   [] t = <<"o", "c", "t">> -> 10
      [] t = <<"n", "o", "v">> -> 11  [] t = <<"d", "e", "c">> -> 12
      [] OTHER -> 0

LowerStr(s) == [i \in 1..Len(s) |-> Lower(s[i])]

NonMonthFields == {"day", "hour", "minute", "name", "weight", "height"}

\* C9 (as amended): numeric_months maps each of the twelve abbreviations,
\* spelled in lower case, to its number 1-12 and fails (KeyError) as soon as
\* one token is anything else, an upper- or mixed-case spelling included; the
\* records returned are new, their other fields equal the input's, and the
\* input records still hold their month tokens.
C9_LowerCaseMonthsOnly ==
    pc # "start" =>
        /\ \A i \in 1..Len(aliases) : aliases[i].month \in MonthTokens
        /\ IF \A i \in 1..Len(aliases) : MonthNumber(aliases[i].month) # 0
           THEN /\ pc = "done"
                /\ result.raised = None
                /\ Len(result.value) = Len(aliases)
                /\ \A i \in 1..Len(aliases) :
                      /\ result.value[i].month = MonthNumber(aliases[i].month)
                      /\ \A f \in NonMonthFields :
                            result.value[i][f] = aliases[i][f]
           ELSE /\ pc = "raised"
                /\ result = Raise("KeyError")

\* C9 as claimed: the abbreviations are recognised in any letter case.
C9_AnyCaseMonths ==
    pc # "start" =>
        ((\A i \in 1..Len(aliases) : MonthNumber(LowerStr(aliases[i].month)) # 0)
            => /\ result.raised = None
               /\ \A i \in 1..Len(aliases) :
                     result.value[i].month =
                         MonthNumber(LowerStr(aliases[i].month)))

\* 'dec' became 12 beside another record, and the input kept its token
C9_Witness ==
    /\ pc = "done"
    /\ Len(aliases) = 2
    /\ aliases[1].month = <<"d", "e", "c">>
    /\ result.value[1].month = 12
    /\ result.value[2].height = 0

(***************************************************************************)
(* find_profile_changes: describe_suspicious_profile and main              *)
(***************************************************************************)
\* f"{o['month'].capitalize()} {o['day']} {o['hour']:02}:{o['minute']:02}"
format_date(o) ==
    Capitalize(o.month) \o <<" ">> \o IntToStr(o.day) \o <<" ">>
        \o Format02(o.hour) \o <<":">> \o Format02(o.minute)

\* faulty variant: the change is dated by the older record of the pair
describe_suspicious_delta_from(delta) ==
    [date |-> format_date(delta.from),
     height_change |-> delta.deltas["height"]]

describe_suspicious_delta(delta) ==
    [date |-> format_date(delta.to),
     height_change |-> delta.deltas["height"]]

\* None, or the report of the profile
describe_suspicious_profile(profile) ==
    LET suspicious_deltas ==
            get_suspicious_deltas(backfill_heights(profile.aliases))
    IN  IF suspicious_deltas = <<>> THEN None
        ELSE Some([zwiftid |-> profile.zwiftid,
                   zwiftpower_points |-> profile.zwiftpower_points,
                   suspicious_profile_changes |->
                       [k \in 1..Len(suspicious_deltas) |->
                           describe_suspicious_delta(suspicious_deltas[k])]])

\* the sort key (d['zwiftpower_points'], d['zwiftid']) and Python's tuple
\* comparison: equal first items are skipped, the first unequal pair decides;
\* None < float raises TypeError
KeysComparable(a, b) ==
    IsNone(a.zwiftpower_points) = IsNone(b.zwiftpower_points)

KeyLess(a, b) ==
    IF a.zwiftpower_points = b.zwiftpower_points THEN a.zwiftid < b.zwiftid
    ELSE Val(a.zwiftpower_points) < Val(b.zwiftpower_points)

\* x inserted behind every item that is not greater than it (stable)
RECURSIVE InsertByKey(_, _)
InsertByKey(x, sorted) ==
    IF sorted = <<>> THEN <<x>>
    ELSE IF KeyLess(x, sorted[1]) THEN <<x>> \o sorted
    ELSE <<sorted[1]>> \o InsertByKey(x, Tail(sorted))

RECURSIVE StableSort(_)
StableSort(ds) ==
    IF ds = <<>> THEN <<>>
    ELSE InsertByKey(ds[Len(ds)], StableSort(SubSeq(ds, 1, Len(ds) - 1)))

\* sorted(descs, key=...): a stable ascending sort; ordering a key whose
\* points are None against one whose points are a float raises TypeError
PySorted(ds) ==
    IF \E i, j \in 1..Len(ds) : ~KeysComparable(ds[i], ds[j])
    THEN Raise("TypeError")
    ELSE Return(StableSort(ds))

Formats == {"json-stream", "json", "csv"}

CsvHeader ==
    [profile_url |-> "profile_url", zwiftpower_points |-> "zwiftpower_points",
     date |-> "date", height_change |-> "height_change"]

\* the rows output_csv writes for one report
CsvRowsOf(desc) ==
    [k \in 1..Len(desc.suspicious_profile_changes) |->
        [profile_url |-> <<"https://www.zwiftpower.com/profile.php?z=">>
                            \o IntToStr(desc.zwiftid),
         zwiftpower_points |-> desc.zwiftpower_points,
         date |-> desc.suspicious_profile_changes[k].date,
         height_change |-> desc.suspicious_profile_changes[k].height_change]]

RECURSIVE CsvRows(_)
CsvRows(ds) ==
    IF ds = <<>> THEN <<>> ELSE CsvRowsOf(ds[1]) \o CsvRows(Tail(ds))

\* what formats[format](descs, sys.stdout) writes for a materialised descs
Render(format, ds) ==
    CASE format = "json-stream" -> ds
      [] format = "json" -> <<ds>>
      [] format = "csv" -> <<CsvHeader>> \o CsvRows(ds)

\* 'json-stream' if args['--format'] is None else args['--format']
FormatOf(a) == IF IsNone(a.format) THEN "json-stream" ELSE Val(a.format)

\* without --sort, json-stream and csv write each report as the generators
\* produce it; json and every sorted run hold the reports back
Streams(a) == ~a.sort /\ FormatOf(a) \in {"json-stream", "csv"}

Profile(zwiftid, points, as) ==
    [zwiftid |-> zwiftid, zwiftpower_points |-> points, aliases |-> as]

\* the aliases of the doctest of get_deltas
DoctestAliases ==
    << Alias(Jan, 15, 0, 28, "a", 820, 187),
       Alias(Jan, 10, 2, 28, "a", 820, 120),
       Alias(Jan, 10, 0, 28, "a", 820, 120),
       Alias(Jan, 1, 0, 28, "a", 820, 187) >>

DoctestProfile == Profile(7, Some(137 * PointsDen), DoctestAliases)

\* input lines: None is a blank line, Some(p) the JSON of profile p (lines
\* that are not JSON, which make stream_profiles raise ValueError, are left
\* out: the input is what parse_profiles.py prints)
ProfileLines ==
    { None,
      Some(DoctestProfile),
      Some(Profile(3, Some(137 * PointsDen),
                   << Alias(Feb, 19, 13, 5, "b", 800, 120),
                      Alias(Feb, 18, 9, 5, "b", 800, 187),
                      Alias(Feb, 8, 9, 5, "b", 800, 0) >>)),
      Some(Profile(4, None,
                   << Alias(Feb, 8, 9, 5, "c", 700, 125),
                      Alias(Feb, 7, 9, 5, "c", 700, 120) >>)),
      Some(Profile(5, Some(112 * PointsDen),
                   << Alias(Feb, 8, 23, 59, "d", 700, 170),
                      Alias(Feb, 7, 9, 5, "d", 700, 175) >>)),
      Some(Profile(6, Some(112 * PointsDen),
                   << Alias(Feb, 8, 9, 5, "e", 700, 124),
                      Alias(Feb, 7, 9, 5, "e", 700, 120) >>)) }

ArgsPool ==
    [format : {None, Some("json-stream"), Some("json"), Some("csv"),
               Some("xml")},
     sort : BOOLEAN]

InitMain ==
    /\ pc = "start"
    /\ args \in ArgsPool
    /\ stdin \in SeqsUpTo(ProfileLines, MaxProfiles)
    /\ pos = 0 /\ descs = <<>> /\ stdout = <<>>
    /\ aliases = <<>> /\ fields = {} /\ retain = <<>> /\ deltas = <<>>
    /\ result = <<>>

\* main up to the call of the renderer
Start ==
    /\ pc = "start"
    /\ IF FormatOf(args) \notin Formats
       THEN pc' = "SystemExit" /\ stdout' = stdout
       ELSE /\ pc' = "run"
            /\ stdout' = IF Streams(args) /\ FormatOf(args) = "csv"
                         THEN <<CsvHeader>> ELSE stdout
    /\ UNCHANGED <<aliases, fields, retain, deltas, result, args, stdin, pos,
                   descs>>

\* one line through stream_profiles, describe_suspicious_profile and the
\* `is not None` filter
ReadProfile ==
    /\ pc = "run"
    /\ pos < Len(stdin)
    /\ pos' = pos + 1
    /\ LET line == stdin[pos + 1]
           desc == IF IsNone(line) THEN None
                   ELSE describe_suspicious_profile(Val(line))
       IN  IF IsNone(desc) THEN UNCHANGED <<descs, stdout>>
           ELSE IF Streams(args)
           THEN /\ stdout' = stdout \o
                       (IF FormatOf(args) = "csv" THEN CsvRowsOf(Val(desc))
                        ELSE <<Val(desc)>>)
                /\ descs' = descs
           ELSE /\ descs' = Append(descs, Val(desc))
                /\ stdout' = stdout
    /\ UNCHANGED <<pc, aliases, fields, retain, deltas, result, args, stdin>>

\* the input is exhausted: sorted() if asked for, then the renderer
Finish ==
    /\ pc = "run"
    /\ pos = Len(stdin)
    /\ IF Streams(args) THEN pc' = "done" /\ UNCHANGED <<descs, stdout>>
       ELSE IF args.sort /\ PySorted(descs).raised # None
       THEN pc' = "TypeError" /\ UNCHANGED <<descs, stdout>>
       ELSE /\ pc' = "done"
            /\ descs' = IF args.sort THEN PySorted(descs).value ELSE descs
            /\ stdout' = Render(FormatOf(args), descs')
    /\ UNCHANGED <<aliases, fields, retain, deltas, result, args, stdin, pos>>

NextMain == Start \/ ReadProfile \/ Finish

SpecMain == InitMain /\ [][NextMain]_vars

\* the reports for the doctest's profile among the lines written
DoctestReports ==
    {k \in 1..Len(stdout) : stdout[k].zwiftid = DoctestProfile.zwiftid}

\* C2 (as amended): the profile whose aliases are, newest first,
\* (jan 15 00:28, 187), (jan 10 02:28, 120), (jan 10 00:28, 120),
\* (jan 1 00:28, 187) is reported with exactly two changes, in this order:
\* "Jan 15 00:28" with 67 and "Jan 10 00:28" with -67; the pair of equal
\* heights (the second) contributes nothing.
C2_DoctestReport ==
    (pc = "done" /\ FormatOf(args) = "json-stream") =>
        /\ Cardinality(DoctestReports) =
              Cardinality({i \in 1..Len(stdin) : stdin[i] = Some(DoctestProfile)})
        /\ \A k \in DoctestReports :
              stdout[k].suspicious_profile_changes =
                  << [date |-> <<"J", "a", "n", " ", "1", "5", " ",
                                 "0", "0", ":", "2", "8">>,
                      height_change |-> 67],
                     [date |-> <<"J", "a", "n", " ", "1", "0", " ",
                                 "0", "0", ":", "2", "8">>,
                      height_change |-> -67] >>

\* C2 as claimed: the second change is dated "Jan 10 02:28".
C2_DoctestReportAsClaimed ==
    (pc = "done" /\ FormatOf(args) = "json-stream") =>
        /\ Cardinality(DoctestReports) =
              Cardinality({i \in 1..Len(stdin) : stdin[i] = Some(DoctestProfile)})
        /\ \A k \in DoctestReports :
              stdout[k].suspicious_profile_changes =
                  << [date |-> <<"J", "a", "n", " ", "1", "5", " ",
                                 "0", "0", ":", "2", "8">>,
                      height_change |-> 67],
                     [date |-> <<"J", "a", "n", " ", "1", "0", " ",
                                 "0", "2", ":", "2", "8">>,
                      height_change |-> -67] >>

\* the doctest's profile was read and its report written
C2_Witness ==
    /\ pc = "done"
    /\ FormatOf(args) = "json-stream"
    /\ stdin = <<Some(DoctestProfile)>>
    /\ Len(stdout) = 1
    /\ Len(stdout[1].suspicious_profile_changes) = 2

\* (points, zwiftid) of a is not above that of b; a pair of which one has no
\* points is taken to be in order either way
KeyInOrder(a, b) ==
    IF IsNone(a.zwiftpower_points) # IsNone(b.zwiftpower_points) THEN TRUE
    ELSE IF a.zwiftpower_points = b.zwiftpower_points
    THEN a.zwiftid <= b.zwiftid
    ELSE Val(a.zwiftpower_points) < Val(b.zwiftpower_points)

Bijections(n) ==
    {f \in [1..n -> 1..n] : \A i, j \in 1..n : f[i] = f[j] => i = j}

\* C8: with --sort, once the input is read, what is rendered is the
\* rendering of a permutation of the reports produced from the input that
\* ascends by (zwiftpower_points, zwiftid).
C8_SortedOutput ==
    (args.sort /\ pc \in {"done", "TypeError"}) =>
        \E f \in Bijections(Len(descs)) :
            LET ordered == [i \in 1..Len(descs) |-> descs[f[i]]]
            IN  /\ \A i, j \in 1..Len(descs) :
                      i < j => KeyInOrder(ordered[i], ordered[j])
                /\ stdout = Render(FormatOf(args), ordered)

(***************************************************************************)
(* anonymise.main                                                          *)
(***************************************************************************)
RECURSIVE LStrip(_)
LStrip(s) == IF s # <<>> /\ s[1] = " " THEN LStrip(Tail(s)) ELSE s

\* str.strip() of blanks
Strip(s) == Reverse(LStrip(Reverse(LStrip(s))))

RECURSIVE DigitsValue(_)
DigitsValue(s) ==
    IF s = <<>> THEN 0
    ELSE DigitsValue(SubSeq(s, 1, Len(s) - 1)) * 10
             + (IndexIn(s[Len(s)], Digits) - 1)

\* int(s): blanks around the literal are ignored, a sign may lead it, and
\* anything but decimal digits after that is a ValueError
PyInt(s) ==
    LET t == Strip(s)
        signed == t # <<>> /\ t[1] \in {"+", "-"}
        body == IF signed THEN Tail(t) ELSE t
    IN  IF body = <<>> \/ \E i \in 1..Len(body) : ~IsIn(body[i], Digits)
        THEN Raise("ValueError")
        ELSE Return(IF signed /\ t[1] = "-" THEN -DigitsValue(body)
                    ELSE DigitsValue(body))

\* round(num / den) for num >= 0, den > 0: Python rounds a float to the
\* nearest int and a tie to the even one
RoundHalfEven(num, den) ==
    LET q == num \div den
        r == num % den
    IN  IF 2 * r < den THEN q
        ELSE IF 2 * r > den THEN q + 1
        ELSE IF q % 2 = 0 THEN q ELSE q + 1

PointsBucket == 50
DateCut == 7
HourEnd == 9
Noon == 12

\* faulty variant: int(points / 50) * 50, which truncates
AnonPoints_truncated(points) == (points \div (PointsBucket * PointsDen)) * PointsBucket

\* round(desc['zwiftpower_points'] / 50) * 50; points counts 1/PointsDen
\* points, the result whole points.  The float quotient is exactly halfway
\* between two ints only when the points are exactly halfway between two
\* multiples of 50 (the nearest other grid value is 1/PointsDen points away,
\* far more than a rounding error), so exact arithmetic rounds as the
\* floats do.
AnonPoints(points) ==
    RoundHalfEven(points, PointsBucket * PointsDen) * PointsBucket

\* pc['date'][:7] + ('am' if int(pc['date'][7:9]) < 12 else 'pm')
AnonDate(date) ==
    LET hour == PyInt(Slice(date, DateCut, HourEnd))
    IN  IF hour.raised # None THEN hour
        ELSE Return(Slice(date, 0, DateCut)
                    \o (IF hour.value < Noon THEN <<"a", "m">>
                        ELSE <<"p", "m">>))

\* the body of the for loop up to print(): the dict display is evaluated in
\* order, the points first (None / 50 is a TypeError), then the changes
AnonDesc(desc) ==
    LET changes == desc.suspicious_profile_changes
    IN  IF IsNone(desc.zwiftpower_points) THEN Raise("TypeError")
        ELSE IF \E k \in 1..Len(changes) : AnonDate(changes[k].date).raised # None
        THEN Raise("ValueError")
        ELSE Return(
            [zwiftid |-> None,
             zwiftpower_points |-> AnonPoints(Val(desc.zwiftpower_points)),
             suspicious_profile_changes |->
                 [k \in 1..Len(changes) |->
                     [date |-> AnonDate(changes[k].date).value,
                      height_change |-> changes[k].height_change]]])

\* a report as find_profile_changes writes it for a profile with one or two
\* suspicious changes
Report(zwiftid, points, stamps) ==
    [zwiftid |-> zwiftid, zwiftpower_points |-> points,
     suspicious_profile_changes |->
        [k \in 1..Len(stamps) |->
            [date |-> format_date(stamps[k]), height_change |-> 5 * k]]]

Stamp(month, day, hour, minute) ==
    [month |-> month, day |-> day, hour |-> hour, minute |-> minute]

ReportDays == {1, 8, 10, 18, 31}
ReportHours == {0, 9, 11, 12, 13, 23}

ReportPool ==
    {Report(7, pts, <<Stamp(Feb, d, h, 5)>>) :
        pts \in {None, Some(137 * PointsDen)}, d \in ReportDays,
        h \in ReportHours}
    \cup {Report(3, Some(112 * PointsDen),
                 <<Stamp(Feb, 18, 13, 5), Stamp(Jan, 15, 0, 28)>>)}

InitAnon ==
    /\ pc = "run"
    /\ stdin \in SeqsUpTo(ReportPool, MaxReports)
    /\ pos = 0 /\ stdout = <<>>
    /\ aliases = <<>> /\ fields = {} /\ retain = <<>> /\ deltas = <<>>
    /\ result = <<>> /\ args = <<>> /\ descs = <<>>

\* one pass of `for line in sys.stdin`
AnonymiseLine ==
    /\ pc = "run"
    /\ pos < Len(stdin)
    /\ pos' = pos + 1
    /\ LET anon_desc == AnonDesc(stdin[pos + 1])
       IN  IF anon_desc.raised # None
           THEN pc' = Val(anon_desc.raised) /\ stdout' = stdout
           ELSE pc' = pc /\ stdout' = Append(stdout, anon_desc.value)
    /\ UNCHANGED <<aliases, fields, retain, deltas, result, args, stdin,
                   descs>>

\* standard input is exhausted
AnonymiseEnd ==
    /\ pc = "run"
    /\ pos = Len(stdin)
    /\ pc' = "done"
    /\ UNCHANGED <<aliases, fields, retain, deltas, result, args, stdin, pos,
                   descs, stdout>>

NextAnon == AnonymiseLine \/ AnonymiseEnd

SpecAnon == InitAnon /\ [][NextAnon]_vars

\* reports with every points value of the grid 0, 1/PointsDen, ... MaxPoints,
\* one without points and one dated on a one-digit day
RoundPool ==
    {Report(7, Some(n), <<Stamp(Feb, 18, 9, 5)>>) :
        n \in 0..(MaxPoints * PointsDen)}
    \cup {Report(4, None, <<Stamp(Feb, 18, 9, 5)>>),
          Report(5, Some(112 * PointsDen), <<Stamp(Feb, 8, 9, 5)>>)}

InitRound ==
    /\ pc = "run"
    /\ stdin \in SeqsUpTo(RoundPool, MaxRoundLines)
    /\ pos = 0 /\ stdout = <<>>
    /\ aliases = <<>> /\ fields = {} /\ retain = <<>> /\ deltas = <<>>
    /\ result = <<>> /\ args = <<>> /\ descs = <<>>

SpecRound == InitRound /\ [][NextAnon]_vars

\* position of the second blank of a date "<Month> <Day> <HH>:<MM>"
SecondBlank(date) ==
    CHOOSE i \in 1..Len(date) :
        /\ date[i] = " "
        /\ Cardinality({j \in 1..(i - 1) : date[j] = " "}) = 1

\* the hour a date of the detection stage states
HourOfDate(date) ==
    LET i == SecondBlank(date)
    IN  (IndexIn(date[i + 1], Digits) - 1) * 10
            + (IndexIn(date[i + 2], Digits) - 1)

\* "<Month> <Day>" immediately followed by "am" before noon, "pm" from noon
HalfDay(date) ==
    SubSeq(date, 1, SecondBlank(date) - 1)
        \o (IF HourOfDate(date) < 12 THEN <<"a", "m">> ELSE <<"p", "m">>)

\* C3: every date of a report read so far (of a report that has points) has
\* been written as "<Month> <Day>" immediately followed by "am" when its hour is below 12 and by "pm"
\* otherwise ("Feb 18 09:05" as "Feb 18am", "Feb 18 13:05" as "Feb 18pm").
C3_DateHalfDay ==
    \A i \in 1..pos :
        ~IsNone(stdin[i].zwiftpower_points) =>
        /\ i <= Len(stdout)
        /\ \A k \in 1..Len(stdin[i].suspicious_profile_changes) :
              stdout[i].suspicious_profile_changes[k].date =
                  HalfDay(stdin[i].suspicious_profile_changes[k].date)

\* C4: the anonymiser never stops with an error, and it has written one
\* record for each record read so far, in input order, each with a null
\* zwiftid.
C4_AnonymiserTotal ==
    /\ pc \in {"run", "done"}
    /\ Len(stdout) = pos
    /\ \A i \in 1..Len(stdout) :
          /\ stdout[i].zwiftid = None
          /\ Len(stdout[i].suspicious_profile_changes) =
                Len(stdin[i].suspicious_profile_changes)
          /\ \A k \in 1..Len(stdin[i].suspicious_profile_changes) :
                stdout[i].suspicious_profile_changes[k].height_change =
                    stdin[i].suspicious_profile_changes[k].height_change

\* C10: the points written for a record are a multiple of 50 that differs
\* from the record's (non-negative) points by at most 25, and a value
\* exactly halfway between two multiples goes, each time, to the even
\* multiple (round-half-to-even); 137 becomes 150 and 112 becomes 100.
C10_PointsNearestFifty ==
    \A i \in 1..Len(stdout) :
        LET points == Val(stdin[i].zwiftpower_points)
            out == stdout[i].zwiftpower_points
        IN  /\ out % 50 = 0
            /\ Abs(out * PointsDen - points) <= 25 * PointsDen
            /\ Abs(out * PointsDen - points) = 25 * PointsDen
                   => (out \div 50) % 2 = 0
            /\ points = 137 * PointsDen => out = 150
            /\ points = 112 * PointsDen => out = 100

\* 125 points, halfway between 100 and 150, were written as 100
C10_Witness ==
    /\ pc = "done"
    /\ Len(stdin) = 1
    /\ stdin[1].zwiftpower_points = Some(125 * PointsDen)
    /\ Len(stdout) = 1
    /\ stdout[1].zwiftpower_points = 100

====
